---- MODULE Spec2Model ----
(***************************************************************************)
(* oci-sysext: the `create` pipeline of pkg/sysextutils (CreateSysext,     *)
(* createRootfs, calcSkipLayers, adjustSymlinks, relocateAndPatchBinaries, *)
(* patchBinary, patchDependencies, parseLddOutput) over a small model of   *)
(* the image store, the per-image rootfs tree and the host filesystem.     *)
(*                                                                         *)
(* A path is a sequence of components counted from "/" (absolute) or from  *)
(* a tree root (relative).  A tree is a function from relative paths to    *)
(* entries; the empty path <<>> is the tree's root directory and a tree    *)
(* with empty domain is a directory that does not exist.                   *)
(***************************************************************************)
EXTENDS Integers, Sequences, FiniteSets, TLC

\* ------------------------------------------------------------------ bounds

\* create invocations started in one behaviour
MaxRuns == 2
\* symbolic links followed by one path resolution before ELOOP
MaxFollow == 3

\* ------------------------------------------------------------- path algebra

Last(s) == s[Len(s)]
Front(s) == SubSeq(s, 1, Len(s) - 1)
IsPrefix(a, b) == Len(a) <= Len(b) /\ SubSeq(b, 1, Len(a)) = a
DropPrefix(a, b) == SubSeq(b, Len(a) + 1, Len(b))

\* filepath.Clean of an absolute path: ".." removes the component before it,
\* and is dropped at "/".
RECURSIVE CleanAbs(_, _)
CleanAbs(acc, rest) ==
    IF rest = <<>> THEN acc
    ELSE IF Head(rest) = ".."
         THEN CleanAbs(IF acc = <<>> THEN <<>> ELSE Front(acc), Tail(rest))
         ELSE CleanAbs(Append(acc, Head(rest)), Tail(rest))

\* filepath.Join(dir, rel) for an absolute dir: the concatenation, cleaned.
Join(dir, rel) == CleanAbs(<<>>, dir \o rel)

\* filepath.Dir and filepath.Base of an absolute path.
Dir(p) == IF p = <<>> THEN <<>> ELSE Front(p)
Base(p) == Last(p)

\* The lexical order os.ReadDir and filepath.Walk list names in.
NameOrder ==
    << "app", "bin", "busybox", "conf", "dangle", "dev", "esc", "etc",
       "extension-release.d", "extension-release.one",
       "extension-release.two", "lib", "libc", "libcrypt", "libssl", "libz", "null",
       "opt", "sbin", "sh", "static", "tool", "up", "usr" >>

SortedNames(S) == SelectSeq(NameOrder, LAMBDA n : n \in S)

\* ------------------------------------------------------------------ entries

NoPath == <<>>

Entry(k, data, abs, t, etype, isec, interp, rpath, needed) ==
    [k |-> k, data |-> data, abs |-> abs, t |-> t, etype |-> etype,
     isec |-> isec, interp |-> interp, rpath |-> rpath, needed |-> needed]

DirEntry == Entry("dir", "", FALSE, NoPath, "", FALSE, NoPath, NoPath, {})
\* a regular file that is no ELF object, with its content
FileEntry(data) ==
    Entry("file", data, FALSE, NoPath, "", FALSE, NoPath, NoPath, {})
\* a symbolic link: abs tells whether the target starts with "/"
LinkEntry(abs, t) ==
    Entry("link", "", abs, t, "", FALSE, NoPath, NoPath, {})
\* an ELF file: its e_type, whether it has an .interp section, the section's
\* data (<<>>: empty), its RPATH and its DT_NEEDED names
ElfEntry(etype, isec, interp, rpath, needed) ==
    Entry("elf", "", FALSE, NoPath, etype, isec, interp, rpath, needed)
\* what a lookup of a path that names nothing gives
Missing == Entry("none", "", FALSE, NoPath, "", FALSE, NoPath, NoPath, {})

NoTree == << >>
TreeExists(tree) == <<>> \in DOMAIN tree

\* the tree with path p holding entry e
Put(tree, p, e) ==
    [q \in DOMAIN tree \cup {p} |-> IF q = p THEN e ELSE tree[q]]

Prefixes(p) == {SubSeq(p, 1, n) : n \in 0..Len(p)}

\* os.MkdirAll(root/p): every missing directory on the way is created
MkdirAllTree(tree, p) ==
    [q \in DOMAIN tree \cup Prefixes(p) |->
        IF q \in DOMAIN tree THEN tree[q] ELSE DirEntry]

Children(tree, p) ==
    {Last(q) : q \in {r \in DOMAIN tree : Len(r) = Len(p) + 1 /\ IsPrefix(p, r)}}

\* ------------------------------------------------------- images and layers

Images == {"scratch", "tiny", "mid", "full"}
Names == {"one", "two"}
FsKinds == {"squashfs", "btrfs", "ext4", "xfs"}

\* the manifest's layers of each image (v1.Manifest.Layers), as digests
Manifest(image) ==
    CASE image = "scratch" -> << >>
      [] image = "tiny" -> << "d0" >>
      [] image = "mid" -> << "d1", "d2", "d3" >>
      [] image = "full" -> << "d1", "d2", "d3", "d4", "d5" >>

\* the dynamic loader and library directory the images were built for
OrigInterp == << "lib", "ld-musl-x86_64.so.1" >>
OrigRPath == << "usr", "lib" >>

\* the content of each layer archive <digest>.tar.gz: relative path -> entry
Archive(digest) ==
    CASE digest = "d0" ->
           ( << "usr" >> :> DirEntry
          @@ << "usr", "share" >> :> DirEntry
          @@ << "usr", "share", "doc" >> :> FileEntry("doc") )
      [] digest = "d1" ->
           ( << "usr" >> :> DirEntry
          @@ << "usr", "bin" >> :> DirEntry
          @@ << "usr", "lib" >> :> DirEntry
          @@ << "lib" >> :> LinkEntry(FALSE, << "usr", "lib" >>)
          @@ << "usr", "bin", "sh" >> :>
                ElfEntry("EXEC", TRUE, OrigInterp, OrigRPath, {"libz"})
          @@ << "usr", "lib", "libz" >> :>
                ElfEntry("DYN", FALSE, NoPath, OrigRPath, {}) )
      [] digest = "d2" ->
           ( << "usr", "bin", "app" >> :>
                ElfEntry("DYN", TRUE, OrigInterp, OrigRPath,
                         {"libz", "libssl", "libcrypt"})
          @@ << "usr", "bin", "static" >> :>
                ElfEntry("EXEC", FALSE, NoPath, NoPath, {})
          @@ << "usr", "bin", "tool" >> :>
                ElfEntry("EXEC", TRUE, NoPath, NoPath, {})
          @@ << "etc" >> :> DirEntry
          @@ << "etc", "conf" >> :> FileEntry("v1") )
      [] digest = "d3" ->
           ( << "sbin" >> :> LinkEntry(TRUE, << "usr", "bin" >>)
          @@ << "esc" >> :> LinkEntry(TRUE, << "..", "etc" >>)
          @@ << "usr", "bin", "busybox" >> :> LinkEntry(FALSE, << "sh" >>)
          @@ << "usr", "bin", "dangle" >> :> LinkEntry(FALSE, << "nothere" >>)
          @@ << "usr", "bin", "up" >> :>
                LinkEntry(FALSE, << "..", "lib", "missing" >>) )
      [] digest = "d4" ->
           ( << "dev" >> :> DirEntry
          @@ << "dev", "null" >> :> FileEntry("dev")
          @@ << "opt" >> :> DirEntry
          @@ << "opt", "conf" >> :> FileEntry("opt")
          @@ << "usr", "sbin" >> :> DirEntry
          @@ << "usr", "sbin", "tool" >> :>
                ElfEntry("EXEC", TRUE, OrigInterp, OrigRPath, {"libc"}) )
      [] digest = "d5" ->
           ( << "etc", "conf" >> :> FileEntry("v2")
          @@ << "opt", "libssl" >> :>
                LinkEntry(TRUE, << "usr", "lib", "libssl" >>)
          @@ << "opt", "tool" >> :> LinkEntry(FALSE, << "libssl" >>) )

\* ------------------------------------------------------ the host filesystem

\* SysextRootfsDir and SysextDir (utils.GetOciSysextHome() shortened to /home)
SysextRootfsDir == << "home", "sysexts-rootfs" >>
SysextDir == << "home", "sysexts" >>

\* getID: the hex md5 of the image reference, a directory name of its own
getID(name) ==
    CASE name = "scratch" -> "id-scratch"
      [] name = "tiny" -> "id-tiny"
      [] name = "mid" -> "id-mid"
      [] name = "full" -> "id-full"

RootfsDirOf(image) == Append(SysextRootfsDir, getID(image))

\* the loader the host's own libc names in its .interp section
HostInterp == << "usr", "lib64", "ld-linux-x86-64.so.2" >>

\* what the host has outside the rootfs trees: the directories above them
\* and the build host's own libraries, which ldd falls back to
HostFS ==
    ( << >> :> DirEntry
   @@ << "home" >> :> DirEntry
   @@ SysextRootfsDir :> DirEntry
   @@ << "usr" >> :> DirEntry
   @@ << "usr", "lib" >> :> DirEntry
   @@ << "usr", "lib", "libssl" >> :>
         ElfEntry("DYN", FALSE, NoPath, NoPath, {})
   @@ << "usr", "lib", "libc" >> :>
         ElfEntry("DYN", TRUE, HostInterp, NoPath, {}) )

\* the entry an absolute path names, without following a link at its end:
\* inside root the tree decides, elsewhere the host
Lookup(tree, root, p) ==
    IF IsPrefix(root, p)
    THEN IF DropPrefix(root, p) \in DOMAIN tree
         THEN tree[DropPrefix(root, p)] ELSE Missing
    ELSE IF p \in DOMAIN HostFS THEN HostFS[p] ELSE Missing

\* The kernel's path resolution from the resolved directory cur over the
\* components rest, following symbolic links (at most fuel of them):
\* st is "ok", "enoent", "enotdir" or "eloop"; path is the place reached;
\* last tells, for "enoent", that only the final component is missing.
RECURSIVE Resolve(_, _, _, _, _)
\* the step over the component that names nxt, where the entry e is found
ResolveEntry(tree, root, cur, rest, fuel, nxt, e) ==
    CASE e.k = "none" ->
           [st |-> "enoent", path |-> nxt, last |-> Tail(rest) = << >>]
      [] e.k = "dir" -> Resolve(tree, root, nxt, Tail(rest), fuel)
      [] e.k = "link" ->
           IF fuel = 0
           THEN [st |-> "eloop", path |-> nxt, last |-> FALSE]
           ELSE Resolve(tree, root, IF e.abs THEN << >> ELSE cur,
                        e.t \o Tail(rest), fuel - 1)
      [] OTHER ->
           IF Tail(rest) = << >>
           THEN [st |-> "ok", path |-> nxt, last |-> FALSE]
           ELSE [st |-> "enotdir", path |-> nxt, last |-> FALSE]

Resolve(tree, root, cur, rest, fuel) ==
    IF rest = << >> THEN [st |-> "ok", path |-> cur, last |-> FALSE]
    ELSE IF Head(rest) = ".."
    THEN Resolve(tree, root, Dir(cur), Tail(rest), fuel)
    ELSE ResolveEntry(tree, root, cur, rest, fuel, Append(cur, Head(rest)),
                      Lookup(tree, root, Append(cur, Head(rest))))

\* os.Stat(p) for an absolute path p
Stat(tree, root, p) == Resolve(tree, root, << >>, p, MaxFollow)

\* os.IsNotExist(err) of os.Stat(p): ENOENT alone
StatNotExist(tree, root, p) == Stat(tree, root, p).st = "enoent"

\* -------------------------------------------------------- injected failures

\* One operation of a stage that the environment makes fail: op names the
\* call, path the tree entry it is made for.  NoFault: nothing fails.
NoFault == [op |-> "none", path |-> << >>]
Hits(fault, op, p) == fault = [op |-> op, path |-> p]

\* the state a walk threads through its callback: the tree, the error that
\* ended the walk ("" while it runs), and the reads that failed without
\* ending the walk
WalkState(tree) == [tree |-> tree, err |-> "", unread |-> {}]
Fail(st, e) == [st EXCEPT !.err = e]
Without(tree, p) == [q \in DOMAIN tree \ {p} |-> tree[q]]

\* ------------------------------------------------------------ adjustSymlinks

\* newTarget of an absolute target: Join(rootfsDir, TrimPrefix(target, "/"))
AbsNewTarget(root, target) == Join(root, target)
\* relativeTarget: Join(Dir(path), target)
RelativeTarget(root, p, target) == Join(Dir(root \o p), target)
\* newTarget of a broken relative target: Join(rootfsDir, target)
RelNewTarget(root, target) == Join(root, target)

\* whether the walk's callback rewrites the link e found at p
LinkIsRewritten(tree, root, p, e) ==
    \/ e.abs
    \/ StatNotExist(tree, root, RelativeTarget(root, p, e.t))

\* os.Remove(path) then os.Symlink(newTarget, path)
Relink(st, p, newTarget, fault) ==
    IF Hits(fault, "remove", p) THEN Fail(st, "remove")
    ELSE IF Hits(fault, "symlink", p)
    THEN [st EXCEPT !.tree = Without(st.tree, p), !.err = "symlink"]
    ELSE [st EXCEPT !.tree = Put(st.tree, p, LinkEntry(TRUE, newTarget))]

\* the callback of adjustSymlinks for the entry at p
VisitLink(st, root, p, fault) ==
    IF st.tree[p].k # "link" THEN st
    ELSE IF st.tree[p].abs
    THEN Relink(st, p, AbsNewTarget(root, st.tree[p].t), fault)
    ELSE IF LinkIsRewritten(st.tree, root, p, st.tree[p])
    THEN Relink(st, p, RelNewTarget(root, st.tree[p].t), fault)
    ELSE st

\* -------------------------------------------------- relocateAndPatchBinaries

\* newInterpreterPath of patchBinary: "/lib64/ld-linux-x86-64.so.2"
FixedInterp == << "lib64", "ld-linux-x86-64.so.2" >>
\* newRPath, newLibPath: filepath.Join(newRootPath, "lib")
NewLibPath(newRoot) == Join(newRoot, << "lib" >>)
\* where the host's loader looks when the RPATH does not have the library
HostLibDir == << "usr", "lib" >>

\* the file a resolution r reaches (Missing: none)
Reached(tree, root, r) ==
    IF r.st = "ok" THEN Lookup(tree, root, r.path) ELSE Missing

\* the file an open of root/p reaches, links followed
Opened(tree, root, p) == Reached(tree, root, Stat(tree, root, root \o p))

\* elf.NewFile parses the file and its type is ET_EXEC or ET_DYN
IsElfObject(f) == f.k = "elf" /\ f.etype \in {"EXEC", "DYN"}

\* isELFExecutable: false when the open or the ELF parse fails
isELFExecutable(tree, root, p, fault) ==
    /\ ~Hits(fault, "open", p)
    /\ IsElfObject(Opened(tree, root, p))

\* the .interp test on the file f: true when there is no .interp section,
\* when its data cannot be read, or when it is empty
NoInterp(f, unreadable) ==
    IF f.k # "elf" THEN FALSE
    ELSE IF ~f.isec THEN TRUE
    ELSE IF unreadable THEN TRUE
    ELSE f.interp = << >>

\* isStaticallyLinked: false when elf.Open fails
isStaticallyLinked(tree, root, p, fault) ==
    IF Hits(fault, "elfopen", p) THEN FALSE
    ELSE NoInterp(Opened(tree, root, p), Hits(fault, "interpdata", p))

\* the file f with its loader or its RPATH set
Patched(f, what, value) ==
    IF what = "interp" THEN [f EXCEPT !.isec = TRUE, !.interp = value]
    ELSE [f EXCEPT !.rpath = value]

\* patchelf on the file the resolution r reaches: it fails on what is no
\* ELF file of the tree
PatchResolved(st, root, r, what, value, failed) ==
    IF \/ failed
       \/ r.st # "ok"
       \/ ~IsPrefix(root, r.path)
       \/ Lookup(st.tree, root, r.path).k # "elf"
    THEN Fail(st, "patchelf")
    ELSE [st EXCEPT !.tree =
            Put(st.tree, DropPrefix(root, r.path),
                Patched(Lookup(st.tree, root, r.path), what, value))]

\* patchelf --set-interpreter / --set-rpath on the absolute path q
PatchElf(st, root, q, what, value, failed) ==
    PatchResolved(st, root, Stat(st.tree, root, q), what, value, failed)

\* patchelf --set-rpath value q, unless the step before it failed
SetRPath(st, root, q, value, failed) ==
    IF st.err # "" THEN st
    ELSE PatchElf(st, root, q, "rpath", value, failed)

\* patchBinary
patchBinary(st, root, newRoot, p, fault) ==
    IF isStaticallyLinked(st.tree, root, p, fault) THEN st
    ELSE SetRPath(PatchElf(st, root, root \o p, "interp", FixedInterp,
                           Hits(fault, "setinterp", p)),
                  root, root \o p, NewLibPath(newRoot),
                  Hits(fault, "setrpath", p))

\* One line of ldd's output, as strings.Fields splits it: nf fields, arrow
\* whether the second holds "=>", p2 the third (NotToken: the word "not").
NotToken == << "not" >>
LddLine(nf, arrow, p2) == [nf |-> nf, arrow |-> arrow, p2 |-> p2]

\* the line ldd prints for the needed library n of a binary with RPATH rpath
LddNeeded(tree, root, rpath, n) ==
    IF rpath # NoPath /\ Stat(tree, root, Append(rpath, n)).st = "ok"
    THEN LddLine(4, TRUE, Append(rpath, n))
    ELSE IF Stat(tree, root, Append(HostLibDir, n)).st = "ok"
    THEN LddLine(4, TRUE, Append(HostLibDir, n))
    ELSE LddLine(4, TRUE, NotToken)

\* the vdso line, one line per needed library, the loader's line
LddLines(tree, root, rpath, ns) ==
    << LddLine(2, FALSE, NoPath) >>
    \o [i \in 1..Len(ns) |-> LddNeeded(tree, root, rpath, ns[i])]
    \o << LddLine(2, FALSE, NoPath) >>

LddOutput(tree, root, f) ==
    LddLines(tree, root, f.rpath, SortedNames(f.needed))

\* ldd path
Ldd(tree, root, p) == LddOutput(tree, root, Opened(tree, root, p))

\* the condition of parseLddOutput for keeping a line's third field
LddAccepts(line) == line.nf > 2 /\ line.arrow /\ line.p2 # NotToken

\* the third field of every kept line
Thirds(kept) == [i \in 1..Len(kept) |-> kept[i].p2]

\* parseLddOutput
parseLddOutput(output) == Thirds(SelectSeq(output, LddAccepts))

\* the copy from the place rs to the place rd
CopyResolved(st, root, rs, rd, failed) ==
    IF \/ failed
       \/ rs.st # "ok"
       \/ Lookup(st.tree, root, rs.path).k \notin {"file", "elf"}
    THEN Fail(st, "copy")
    ELSE IF /\ \/ rd.st = "ok" /\ Lookup(st.tree, root, rd.path).k # "dir"
               \/ rd.st = "enoent" /\ rd.last
            /\ IsPrefix(root, rd.path)
    THEN [st EXCEPT !.tree = Put(st.tree, DropPrefix(root, rd.path),
                                 Lookup(st.tree, root, rs.path))]
    ELSE Fail(st, "copy")

\* copyFile(src, dst): ioutil.ReadFile, os.Stat, ioutil.WriteFile
copyFile(st, root, src, dst, failed) ==
    CopyResolved(st, root, Stat(st.tree, root, src), Stat(st.tree, root, dst),
                 failed)

\* whether patchDependencies copies the library in: os.Stat says not exist
LibIsCopied(tree, root, newLibFullPath) ==
    StatNotExist(tree, root, newLibFullPath)

\* the copy of the library lib to newLibFullPath when it is not there
CopyLib(st, root, lib, newLibFullPath, failed) ==
    IF LibIsCopied(st.tree, root, newLibFullPath)
    THEN copyFile(st, root, lib, newLibFullPath, failed)
    ELSE st

\* the rest of the loop's body: patchelf --set-rpath on newLibFullPath
PatchLibAt(st, root, newLibPath, lib, newLibFullPath, p, fault) ==
    SetRPath(CopyLib(st, root, lib, newLibFullPath, Hits(fault, "copy", p)),
             root, newLibFullPath, newLibPath, Hits(fault, "librpath", p))

\* the body of patchDependencies' loop for one library of the binary at p
PatchLib(st, root, newLibPath, lib, p, fault) ==
    PatchLibAt(st, root, newLibPath, lib, Join(newLibPath, << Base(lib) >>),
               p, fault)

RECURSIVE PatchLibs(_, _, _, _, _, _)
PatchLibs(st, root, newLibPath, libs, p, fault) ==
    IF libs = << >> \/ st.err # "" THEN st
    ELSE PatchLibs(PatchLib(st, root, newLibPath, Head(libs), p, fault),
                   root, newLibPath, Tail(libs), p, fault)

\* patchDependencies
patchDependencies(st, root, newRoot, p, fault) ==
    IF Hits(fault, "ldd", p) THEN Fail(st, "ldd")
    ELSE PatchLibs(st, root, NewLibPath(newRoot),
                   parseLddOutput(Ldd(st.tree, root, p)), p, fault)

\* patchDependencies, unless patchBinary failed
ThenDependencies(st, root, newRoot, p, fault) ==
    IF st.err # "" THEN st
    ELSE patchDependencies(st, root, newRoot, p, fault)

\* the reads of a file that fail without ending the walk: os.Open in
\* isELFExecutable, elf.Open and section.Data in isStaticallyLinked
ReadOps == {"open", "elfopen", "interpdata"}

\* the walk state with the failed read of p noted
Noted(st, p, fault) ==
    IF fault.path = p /\ fault.op \in ReadOps
    THEN [st EXCEPT !.unread = @ \cup {fault}] ELSE st

\* the callback of relocateAndPatchBinaries for the file at p
VisitFile(st, root, newRoot, p, fault) ==
    IF ~isELFExecutable(st.tree, root, p, fault) THEN st
    ELSE IF isStaticallyLinked(st.tree, root, p, fault) THEN st
    ELSE ThenDependencies(patchBinary(st, root, newRoot, p, fault),
                          root, newRoot, p, fault)

\* the callback of relocateAndPatchBinaries for the entry at p
VisitElf(st, root, newRoot, p, fault) ==
    IF st.tree[p].k = "dir" THEN st
    ELSE VisitFile(Noted(st, p, fault), root, newRoot, p, fault)

\* ------------------------------------------------------------ filepath.Walk

Visit(pass, st, root, p, fault) ==
    IF pass = "links" THEN VisitLink(st, root, p, fault)
    ELSE VisitElf(st, root, root, p, fault)

\* walk(path): the callback is called for the entry; for a directory the
\* names in it were read before the callback was called, and each is walked
\* in lexical order; an error ends the walk.
RECURSIVE WalkNames(_, _, _, _, _, _)
\* after the callback: names are the names read from the directory p
Descend(pass, isDir, names, visited, root, p, fault) ==
    IF isDir THEN WalkNames(pass, visited, root, p, names, fault)
    ELSE visited

walk(pass, st, root, p, fault) ==
    IF p \notin DOMAIN st.tree THEN Fail(st, "lstat")
    ELSE Descend(pass, st.tree[p].k = "dir",
                 SortedNames(Children(st.tree, p)),
                 Visit(pass, st, root, p, fault), root, p, fault)

WalkNames(pass, st, root, dir, names, fault) ==
    IF names = << >> \/ st.err # "" THEN st
    ELSE WalkNames(pass, walk(pass, st, root, Append(dir, Head(names)), fault),
                   root, dir, Tail(names), fault)

\* filepath.Walk(rootfsDir, callback)
Walk(pass, tree, root, fault) == walk(pass, WalkState(tree), root, << >>, fault)

adjustSymlinks(tree, root, fault) == Walk("links", tree, root, fault)

relocateAndPatchBinaries(tree, root, fault) == Walk("elf", tree, root, fault)

\* fileutils.UntarFile: tar --exclude=dev/* -xf archive -C target lays the
\* archive's members over the tree, later members replacing earlier ones
Excluded(p) == Len(p) >= 2 /\ p[1] = "dev"

\* the members tar extracts, and the directories it makes on the way to them
Extracted(arch) == {p \in DOMAIN arch : ~Excluded(p)}
Parents(paths) == UNION {Prefixes(Front(p)) : p \in paths}

\* the tree after the members kept and their parents made are laid over it
LaidOver(tree, arch, kept, made) ==
    [p \in DOMAIN tree \cup kept \cup made |->
        IF p \in kept THEN arch[p]
        ELSE IF p \in DOMAIN tree THEN tree[p] ELSE DirEntry]

UntarFile(tree, arch) ==
    LaidOver(tree, arch, Extracted(arch), Parents(Extracted(arch)))

\* ------------------------------------------------- manifests and skip count

\* fileutils.ReadFile(imageDir/manifest.json) and json.Unmarshal: the image's
\* layers when the image is in local storage
ReadManifest(stored, image) ==
    IF image \in stored
    THEN [layers |-> Manifest(image), err |-> ""]
    ELSE [layers |-> << >>, err |-> "enoent"]

\* a variant of calcSkipLayers that clamps a negative difference to 0
calcSkipClamped(stored, image, imageSource) ==
    IF image = imageSource \/ imageSource = ""
    THEN [skip |-> 0, err |-> ""]
    ELSE IF ReadManifest(stored, image).err # ""
    THEN [skip |-> 0, err |-> ReadManifest(stored, image).err]
    ELSE IF ReadManifest(stored, imageSource).err # ""
    THEN [skip |-> 0, err |-> ReadManifest(stored, imageSource).err]
    ELSE IF Len(ReadManifest(stored, image).layers)
            < Len(ReadManifest(stored, imageSource).layers)
    THEN [skip |-> 0, err |-> ""]
    ELSE [skip |-> Len(ReadManifest(stored, image).layers)
                   - Len(ReadManifest(stored, imageSource).layers),
          err |-> ""]

\* calcSkipLayers(image, imageSource)
calcSkipLayers(stored, image, imageSource) ==
    IF image = imageSource \/ imageSource = ""
    THEN [skip |-> 0, err |-> ""]
    ELSE IF ReadManifest(stored, image).err # ""
    THEN [skip |-> 0, err |-> ReadManifest(stored, image).err]
    ELSE IF ReadManifest(stored, imageSource).err # ""
    THEN [skip |-> 0, err |-> ReadManifest(stored, imageSource).err]
    ELSE [skip |-> Len(ReadManifest(stored, image).layers)
                   - Len(ReadManifest(stored, imageSource).layers),
          err |-> ""]

\* a variant of the range check that forgets the negative counts
SkipInvalidUpperOnly(skip, n) == skip > n

\* the range check of createRootfs: skip < 0 || skip > len(manifest.Layers)
SkipInvalid(skip, n) == skip < 0 \/ skip > n

\* a variant of the loop's test that is off by one: i <= skip
LayerSkippedOffByOne(i, skip) == i <= skip

\* the loop's test for leaving layer i (counted from 0) out: i < skip
LayerSkipped(i, skip) == i < skip

\* the fs kinds CreateSysext lets through
\* a variant of the fs check that knows the two kinds of the usage notes
FsSupportedTwoKinds(fs) == fs = "squashfs" \/ fs = "btrfs"

FsSupported(fs) == fs = "squashfs" \/ fs = "btrfs" \/ fs = "ext4"

\* the value of --fs when the flag is not given
DefaultFs == "ext4"

\* the marker's place in the tree:
\* usr/lib/extension-release.d/extension-release.<name>
ReleaseDir == << "usr", "lib", "extension-release.d" >>
ReleaseName(name) ==
    CASE name = "one" -> "extension-release.one"
      [] name = "two" -> "extension-release.two"
MarkerPath(name) == Append(ReleaseDir, ReleaseName(name))
MarkerContent == "ID=_any\nEXTENSION_RELOAD_MANAGER=1\n"

\* ------------------------------------------------- the size of an ext4 image

\* the divisor applied twice to the byte count, and the megabytes added
Kilo == 1024
Headroom == 32

\* the length of the string a link's target is: its components and the
\* slashes between them
RECURSIVE PathBytes(_)
PathBytes(t) ==
    IF t = << >> THEN 0
    ELSE Len(t[1]) + (IF Len(t) > 1 THEN 1 ELSE 0) + PathBytes(Tail(t))

\* the bytes of an ELF image of the layers and of the host: an image grows
\* with its .interp section and with every library it needs
ElfBytes(e) ==
    (IF e.etype = "EXEC" THEN 700000 ELSE 450000)
    + (IF e.isec THEN 150000 ELSE 0)
    + 200000 * Cardinality(e.needed)

\* os.FileInfo.Size() of an entry that is no directory, as the Lstat of
\* filepath.Walk reports it
Size(e) ==
    CASE e.k = "link" -> (IF e.abs THEN 1 ELSE 0) + PathBytes(e.t)
      [] e.k = "file" -> Len(e.data)
      [] e.k = "elf" -> ElfBytes(e)

\* readSize over the paths: discUsage += file.Size() unless file.IsDir()
RECURSIVE SumSizes(_, _)
SumSizes(tree, paths) ==
    IF paths = {} THEN 0
    ELSE LET q == CHOOSE r \in paths : TRUE
         IN (IF tree[q].k = "dir" THEN 0 ELSE Size(tree[q]))
            + SumSizes(tree, paths \ {q})

\* the byte count filepath.Walk(path, readSize) leaves in discUsage
discUsage(tree) == SumSizes(tree, DOMAIN tree)

\* math.Round of bytes/1024/1024 for a count that is not negative: the
\* nearest integer, a half going up
Round(bytes) == (2 * bytes + Kilo * Kilo) \div (2 * Kilo * Kilo)

\* fmt.Sprintf("%.0fM", size): the digits of the number and the suffix
Sprintf(size) == [digits |-> size, suffix |-> "M"]

\* a variant of DiscUsageMegaBytes that cuts the fraction off
DiscUsageTruncated(tree) ==
    Sprintf(discUsage(tree) \div (Kilo * Kilo) + Headroom)

\* DiscUsageMegaBytes: math.Round(float64(discUsage)/1024/1024) + 32
DiscUsageMegaBytes(tree) == Sprintf(Round(discUsage(tree)) + Headroom)

\* truncate -s <size>: the suffix M multiplies by 1024 * 1024
TruncateSize(size) ==
    IF size.suffix = "M" THEN size.digits * Kilo * Kilo ELSE size.digits

\* ---------------------------------------------------------------- the state

Procs == {"p1", "p2"}

VARIABLES
    cmd,      \* the create command line that is invoked: image, name, fs, imageSource
    stored,   \* the images whose directory, manifest and layers are in local storage
    trees,    \* image -> the rootfs tree at SysextRootfsDir/getID(image)
    raws,     \* sysext name -> the raw image at SysextDir/<name>.raw
    run,      \* process -> the CreateSysext call it is in
    hist,     \* the last call that returned: whether it succeeded, the tree it
              \* left and the reads that failed in its relocation pass
    runs      \* the create invocations started so far

vars == << cmd, stored, trees, raws, run, hist, runs >>

\* no file; size is the byte length a file was created with by truncate
\* and shrunk tells that resize2fs -M has cut it down to its content
NoRaw ==
    [fs |-> "", tree |-> NoTree, whole |-> FALSE, exists |-> FALSE,
     size |-> 0, shrunk |-> FALSE]

\* a process outside CreateSysext
Idle ==
    [pc |-> "idle", image |-> "", name |-> "", fs |-> "", imageSource |-> "",
     skip |-> 0, n |-> 0, i |-> 0, extracted |-> << >>,
     err |-> "", log |-> << >>, pre |-> NoTree, mid |-> NoTree,
     unread |-> {}, pulled |-> {}]

NoHist == [returned |-> FALSE, ok |-> FALSE, tree |-> NoTree, unread |-> {}]

\* the command lines tried: every image and image source with the first
\* name and the default fs, every name and fs with the image "full" taken
\* relative to the image "mid", and the ones that leave --image or --name
\* out; the one-layer image "tiny" is only taken on its own
Commands ==
    {c \in [image : Images \cup {""}, name : Names \cup {""}, fs : FsKinds,
            imageSource : Images \cup {""}] :
        \/ /\ c.image # "" /\ c.name = "one" /\ c.fs = DefaultFs
           /\ c.imageSource # "tiny"
           /\ c.image = "tiny" => c.imageSource = ""
        \/ c.image = "full" /\ c.name # "" /\ c.imageSource = "mid"
        \/ /\ c.image = "" \/ c.name = ""
           /\ c.image \in {"", "mid"} /\ c.name \in {"", "one"}
           /\ c.fs = DefaultFs /\ c.imageSource \in {"", "mid"}}

\* no call is running; the images pulled so far are some of the command's
Init ==
    /\ cmd \in Commands
    /\ stored \in SUBSET ({cmd.image, cmd.imageSource} \ {""})
    /\ trees = [im \in Images |-> NoTree]
    /\ raws = [nm \in Names |-> NoRaw]
    /\ run = [p \in Procs |-> Idle]
    /\ hist = NoHist
    /\ runs = 0

Tree(p) == trees[run[p].image]
Root(p) == RootfsDirOf(run[p].image)
Logged(p, op) == Append(run[p].log, op)

\* the call returns err
Return(p, e) == [run EXCEPT ![p].pc = "done", ![p].err = e]

\* -------------------------------------------------------------- the actions

\* a variant of the argument check that also wants --image-source
ArgsMissingSource(c) == c.image = "" \/ c.name = "" \/ c.imageSource = ""

\* create: image == "" || name == ""
ArgsMissing(c) == c.image = "" \/ c.name = ""

\* create: the flags are read and checked, then
\* CreateSysext(image, name, fs, imageSource) is called
Start(p) ==
    /\ run[p].pc = "idle"
    /\ runs < MaxRuns
    /\ runs' = runs + 1
    /\ run' = [run EXCEPT ![p] =
                 [Idle EXCEPT !.pc = IF ArgsMissing(cmd) THEN "done"
                                    ELSE "checkfs",
                              !.err = IF ArgsMissing(cmd)
                                      THEN "missing required arguments"
                                      ELSE "",
                              !.image = cmd.image,
                              !.name = cmd.name, !.fs = cmd.fs,
                              !.imageSource = cmd.imageSource]]
    /\ UNCHANGED << cmd, stored, trees, raws, hist >>

\* the fs check, and imageSource = image when imageSource is empty
CheckFs(p) ==
    /\ run[p].pc = "checkfs"
    /\ run' = IF ~FsSupported(run[p].fs)
              THEN Return(p, "unsupported fs type")
              ELSE [run EXCEPT ![p].pc = "ensure1",
                               ![p].imageSource =
                                  IF @ = "" THEN run[p].image ELSE @]
    /\ UNCHANGED << cmd, stored, trees, raws, hist, runs >>

\* "Ensure the image source directory only if imageSource is not the same
\* as image": the pull succeeds or fails
EnsureSource(p, pulled) ==
    /\ run[p].pc = "ensure1"
    /\ IF run[p].imageSource # run[p].image
          /\ run[p].imageSource \notin stored
       THEN IF pulled
            THEN /\ stored' = stored \cup {run[p].imageSource}
                 /\ run' = [run EXCEPT ![p].pc = "clean",
                              ![p].pulled = @ \cup {run[p].imageSource}]
            ELSE /\ run' = Return(p, "pull")
                 /\ UNCHANGED stored
       ELSE /\ pulled
            /\ run' = [run EXCEPT ![p].pc = "clean"]
            /\ UNCHANGED stored
    /\ UNCHANGED << cmd, trees, raws, hist, runs >>

\* a variant of cleanRootfs that waits while another call is at work
cleanRootfsWaits(p) ==
    /\ run[p].pc = "clean"
    /\ \A q \in Procs \ {p} : run[q].pc \in {"idle", "checkfs", "done"}
    /\ trees' = [trees EXCEPT ![run[p].image] = NoTree]
    /\ run' = [run EXCEPT ![p].pc = "ensure2", ![p].log = Logged(p, "clean")]
    /\ UNCHANGED << cmd, stored, raws, hist, runs >>

\* a variant of cleanRootfs that leaves the tree of an earlier run in place
cleanRootfsKeeps(p) ==
    /\ run[p].pc = "clean"
    /\ run' = [run EXCEPT ![p].pc = "ensure2", ![p].log = Logged(p, "clean")]
    /\ UNCHANGED << cmd, stored, trees, raws, hist, runs >>

\* cleanRootfs: os.RemoveAll of the image's tree
cleanRootfs(p) ==
    /\ run[p].pc = "clean"
    /\ trees' = [trees EXCEPT ![run[p].image] = NoTree]
    /\ run' = [run EXCEPT ![p].pc = "ensure2", ![p].log = Logged(p, "clean")]
    /\ UNCHANGED << cmd, stored, raws, hist, runs >>

\* "ensuring image imageSource": the second pull of imageSource
EnsureImage(p, pulled) ==
    /\ run[p].pc = "ensure2"
    /\ IF run[p].imageSource \notin stored
       THEN IF pulled
            THEN /\ stored' = stored \cup {run[p].imageSource}
                 /\ run' = [run EXCEPT ![p].pc = "calcskip",
                              ![p].pulled = @ \cup {run[p].imageSource}]
            ELSE /\ run' = Return(p, "pull")
                 /\ UNCHANGED stored
       ELSE /\ pulled
            /\ run' = [run EXCEPT ![p].pc = "calcskip"]
            /\ UNCHANGED stored
    /\ UNCHANGED << cmd, trees, raws, hist, runs >>

\* createRootfs: skip, err := calcSkipLayers(image, imageSource)
CalcSkip(p) ==
    /\ run[p].pc = "calcskip"
    /\ LET r == calcSkipLayers(stored, run[p].image, run[p].imageSource)
       IN run' = IF r.err # "" THEN Return(p, r.err)
                 ELSE [run EXCEPT ![p].pc = "mkdir", ![p].skip = r.skip]
    /\ UNCHANGED << cmd, stored, trees, raws, hist, runs >>

\* createRootfs: os.MkdirAll(sysextRootfsDIR)
MkdirRootfs(p) ==
    /\ run[p].pc = "mkdir"
    /\ trees' = [trees EXCEPT ![run[p].image] = MkdirAllTree(@, << >>)]
    /\ run' = [run EXCEPT ![p].pc = "manifest", ![p].log = Logged(p, "mkdir")]
    /\ UNCHANGED << cmd, stored, raws, hist, runs >>

\* createRootfs: the manifest is read and parsed, then the skip count checked
CheckSkip(p) ==
    /\ run[p].pc = "manifest"
    /\ LET m == ReadManifest(stored, run[p].image)
       IN run' = IF m.err # "" THEN Return(p, m.err)
                 ELSE IF SkipInvalid(run[p].skip, Len(m.layers))
                 THEN Return(p, "invalid number of layers to skip")
                 ELSE [run EXCEPT ![p].pc = "extract",
                                  ![p].n = Len(m.layers), ![p].i = 0]
    /\ UNCHANGED << cmd, stored, trees, raws, hist, runs >>

\* one iteration of the layer loop: the layer is skipped, or extracted; a
\* failing tar leaves the layer extracted or not, and tar -C fails when the
\* directory is not there
ExtractLayer(p, ok, written) ==
    /\ run[p].pc = "extract"
    /\ run[p].i < run[p].n
    /\ LET digest == Manifest(run[p].image)[run[p].i + 1]
       IN IF LayerSkipped(run[p].i, run[p].skip)
          THEN /\ ok /\ written
               /\ run' = [run EXCEPT ![p].i = @ + 1]
               /\ UNCHANGED trees
          ELSE /\ ok => written
               /\ written => TreeExists(Tree(p))
               /\ trees' = IF written
                           THEN [trees EXCEPT ![run[p].image] =
                                   UntarFile(@, Archive(digest))]
                           ELSE trees
               /\ run' = IF ok
                         THEN [run EXCEPT ![p].i = @ + 1,
                                 ![p].extracted = Append(@, run[p].i),
                                 ![p].log = Logged(p, "untar")]
                         ELSE [Return(p, "untar") EXCEPT
                                 ![p].log = Logged(p, "untar")]
    /\ UNCHANGED << cmd, stored, raws, hist, runs >>

\* the operations the environment can make fail during each walk
LinkFaults(tree) ==
    {NoFault} \cup
    {[op |-> o, path |-> q] :
        o \in {"remove", "symlink"},
        q \in {r \in DOMAIN tree : tree[r].k = "link"}}

\* open fails for an ELF file; the reads and tools run for a file with an
\* .interp section fail
ElfFaults(tree) ==
    {NoFault}
    \cup {[op |-> "open", path |-> q] :
            q \in {r \in DOMAIN tree : tree[r].k = "elf"}}
    \cup {[op |-> o, path |-> q] :
            o \in {"elfopen", "interpdata", "setinterp", "setrpath", "ldd",
                   "copy", "librpath"},
            q \in {r \in DOMAIN tree : tree[r].k = "elf" /\ tree[r].isec}}

\* a variant that logs the error of adjustSymlinks and carries on
AdjustReturnsCarriesOn(p, r) ==
    /\ trees' = [trees EXCEPT ![run[p].image] = r.tree]
    /\ run' = [run EXCEPT ![p].pc = "relocate",
                          ![p].err = r.err,
                          ![p].pre = Tree(p),
                          ![p].log = Logged(p, "symlinks")]

\* adjustSymlinks has returned r
AdjustReturns(p, r) ==
    /\ trees' = [trees EXCEPT ![run[p].image] = r.tree]
    /\ run' = [run EXCEPT ![p].pc = IF r.err = "" THEN "relocate" ELSE "done",
                          ![p].err = r.err,
                          ![p].pre = Tree(p),
                          ![p].log = Logged(p, "symlinks")]

\* the loop is over: adjustSymlinks(sysextRootfsDIR)
AdjustSymlinks(p) ==
    /\ run[p].pc = "extract"
    /\ run[p].i >= run[p].n
    /\ \E fault \in LinkFaults(Tree(p)) :
          AdjustReturns(p, adjustSymlinks(Tree(p), Root(p), fault))
    /\ UNCHANGED << cmd, stored, raws, hist, runs >>

\* a variant that logs the error of relocateAndPatchBinaries and carries on
RelocateReturnsCarriesOn(p, r) ==
    /\ trees' = [trees EXCEPT ![run[p].image] = r.tree]
    /\ run' = [run EXCEPT ![p].pc = "retain",
                          ![p].mid = Tree(p),
                          ![p].unread = r.unread,
                          ![p].log = Logged(p, IF r.err = "" THEN "relocate"
                                               ELSE r.err)]

\* relocateAndPatchBinaries has returned r
RelocateReturns(p, r) ==
    /\ trees' = [trees EXCEPT ![run[p].image] = r.tree]
    /\ run' = [run EXCEPT ![p].pc = IF r.err = "" THEN "retain" ELSE "done",
                          ![p].err = r.err,
                          ![p].mid = Tree(p),
                          ![p].unread = r.unread,
                          ![p].log = Logged(p, "relocate")]

\* relocateAndPatchBinaries(sysextRootfsDIR, newRootPath)
Relocate(p) ==
    /\ run[p].pc = "relocate"
    /\ \E fault \in ElfFaults(Tree(p)) :
          RelocateReturns(p, relocateAndPatchBinaries(Tree(p), Root(p), fault))
    /\ UNCHANGED << cmd, stored, raws, hist, runs >>

\* the retention loop: os.ReadDir, and for every name but usr and opt the
\* log line "Removing unneeded dir" (the os.RemoveAll is commented out)
Unneeded(tree) == {nm \in Children(tree, << >>) : nm # "usr" /\ nm # "opt"}
Retention(tree) == tree

Retain(p) ==
    /\ run[p].pc = "retain"
    /\ trees' = [trees EXCEPT ![run[p].image] = Retention(@)]
    /\ run' = IF TreeExists(Tree(p))
              THEN [run EXCEPT ![p].pc = "marker"]
              ELSE Return(p, "readdir")
    /\ UNCHANGED << cmd, stored, raws, hist, runs >>

\* a variant of the marker's write that does not use the requested name
WriteMarkerFixedName(tree, name) ==
    Put(MkdirAllTree(tree, ReleaseDir), MarkerPath("one"),
        FileEntry(MarkerContent))

\* os.MkdirAll of the extension-release directory and os.WriteFile of the
\* marker extension-release.<name>
WriteMarkerTree(tree, name) ==
    Put(MkdirAllTree(tree, ReleaseDir), MarkerPath(name),
        FileEntry(MarkerContent))

WriteMarker(p, ok) ==
    /\ run[p].pc = "marker"
    /\ IF ok
       THEN /\ trees' = [trees EXCEPT ![run[p].image] =
                           WriteMarkerTree(@, run[p].name)]
            /\ run' = [run EXCEPT ![p].pc = "rmraw",
                                  ![p].log = Logged(p, "marker")]
       ELSE /\ trees' = [trees EXCEPT ![run[p].image] =
                           MkdirAllTree(@, ReleaseDir)]
            /\ run' = Return(p, "write")
    /\ UNCHANGED << cmd, stored, raws, hist, runs >>

\* back in CreateSysext: os.MkdirAll(SysextDir), os.Remove(<name>.raw)
RemoveStaleRaw(p) ==
    /\ run[p].pc = "rmraw"
    /\ raws' = [raws EXCEPT ![run[p].name] = NoRaw]
    /\ run' = [run EXCEPT ![p].pc = "pack", ![p].log = Logged(p, "rmraw")]
    /\ UNCHANGED << cmd, stored, trees, hist, runs >>

\* what a formatter that ran to its end leaves at SysextDir/<name>.raw
Packed(fs, tree) ==
    [NoRaw EXCEPT !.fs = fs, !.tree = tree, !.whole = TRUE, !.exists = TRUE]
\* what one that failed leaves
HalfPacked(fs) == [NoRaw EXCEPT !.fs = fs, !.exists = TRUE]

\* what truncate -s size leaves: a file of that length and no filesystem
Truncated(size) ==
    [NoRaw EXCEPT !.exists = TRUE, !.size = TruncateSize(size)]

\* the ext4 branch: size from DiscUsageMegaBytes, then truncate -s size
\* readSize is handed a nil FileInfo when the directory is not there, and
\* the process dies in file.IsDir()
Truncate(p, ok) ==
    /\ run[p].pc = "pack"
    /\ run[p].fs = "ext4"
    /\ raws' = IF ok /\ TreeExists(Tree(p))
               THEN [raws EXCEPT ![run[p].name] =
                       Truncated(DiscUsageMegaBytes(Tree(p)))]
               ELSE raws
    /\ run' = IF ~TreeExists(Tree(p))
              THEN Return(p, "panic")
              ELSE IF ok
              THEN [run EXCEPT ![p].pc = "mkfs",
                               ![p].log = Logged(p, "truncate")]
              ELSE [Return(p, "exit status 1") EXCEPT
                      ![p].log = Logged(p, "truncate")]
    /\ UNCHANGED << cmd, stored, trees, hist, runs >>

\* the ext4 branch: mkfs.ext4 -E root_owner=0:0 -d sysextRootfsDIR
MkfsExt4(p, ok) ==
    /\ run[p].pc = "mkfs"
    /\ ok => TreeExists(Tree(p))
    /\ raws' = [raws EXCEPT ![run[p].name] =
                  IF ok
                  THEN [@ EXCEPT !.fs = "ext4", !.tree = Tree(p),
                                 !.whole = TRUE, !.exists = TRUE]
                  ELSE [@ EXCEPT !.fs = "ext4", !.exists = TRUE]]
    /\ run' = IF ok
              THEN [run EXCEPT ![p].pc = "resize",
                               ![p].log = Logged(p, "mkfs.ext4")]
              ELSE [Return(p, "exit status 1") EXCEPT
                      ![p].log = Logged(p, "mkfs.ext4")]
    /\ UNCHANGED << cmd, stored, trees, hist, runs >>

\* the ext4 branch: resize2fs -M, then return nil
Resize2fs(p, ok) ==
    /\ run[p].pc = "resize"
    /\ raws' = IF ok
               THEN [raws EXCEPT ![run[p].name].shrunk = TRUE]
               ELSE raws
    /\ run' = [Return(p, IF ok THEN "" ELSE "exit status 1") EXCEPT
                 ![p].log = Logged(p, "resize2fs")]
    /\ UNCHANGED << cmd, stored, trees, hist, runs >>

\* mksquashfs or mkfs.btrfs, cmd.CombinedOutput() and return err; the tool
\* fails when the directory is not there
Pack(p, ok) ==
    /\ run[p].pc = "pack"
    /\ ok => TreeExists(Tree(p))
    /\ \/ /\ run[p].fs = "squashfs"
          /\ raws' = [raws EXCEPT ![run[p].name] =
                        IF ok THEN Packed("squashfs", Tree(p))
                        ELSE HalfPacked("squashfs")]
       \/ /\ run[p].fs = "btrfs"
          /\ raws' = [raws EXCEPT ![run[p].name] =
                        IF ok THEN Packed("btrfs", Tree(p))
                        ELSE HalfPacked("btrfs")]
    /\ run' = [Return(p, IF ok THEN "" ELSE "exit status 1") EXCEPT
                 ![p].log = Logged(p, "pack")]
    /\ UNCHANGED << cmd, stored, trees, hist, runs >>

\* CreateSysext has returned and the process exits
Finish(p) ==
    /\ run[p].pc = "done"
    /\ hist' = [returned |-> TRUE, ok |-> run[p].err = "",
                tree |-> IF run[p].err = "" THEN Tree(p) ELSE NoTree,
                unread |-> IF run[p].err = "" THEN run[p].unread ELSE {}]
    /\ run' = [run EXCEPT ![p] = Idle]
    /\ UNCHANGED << cmd, stored, trees, raws, runs >>

\* one process runs create at a time
Main == "p1"

Next ==
    \/ Start(Main)
    \/ CheckFs(Main)
    \/ \E pulled \in BOOLEAN : EnsureSource(Main, pulled)
    \/ cleanRootfs(Main)
    \/ \E pulled \in BOOLEAN : EnsureImage(Main, pulled)
    \/ CalcSkip(Main)
    \/ MkdirRootfs(Main)
    \/ CheckSkip(Main)
    \/ \E ok, written \in BOOLEAN : ExtractLayer(Main, ok, written)
    \/ AdjustSymlinks(Main)
    \/ Relocate(Main)
    \/ Retain(Main)
    \/ \E ok \in BOOLEAN : WriteMarker(Main, ok)
    \/ RemoveStaleRaw(Main)
    \/ \E ok \in BOOLEAN : Pack(Main, ok)
    \/ \E ok \in BOOLEAN : Truncate(Main, ok)
    \/ \E ok \in BOOLEAN : MkfsExt4(Main, ok)
    \/ \E ok \in BOOLEAN : Resize2fs(Main, ok)
    \/ Finish(Main)

Spec == Init /\ [][Next]_vars

\* ------------------------------------------- two invocations at the same time

\* the command lines run twice at once: an image and a name, every fs kind
\* that is accepted
CommandsAtOnce ==
    {c \in [image : {"scratch", "tiny"}, name : {"one"}, fs : FsKinds,
            imageSource : {""}] : FsSupported(c.fs)}

\* the image is in local storage and no process has started
InitAtOnce ==
    /\ cmd \in CommandsAtOnce
    /\ stored = {cmd.image}
    /\ trees = [im \in Images |-> NoTree]
    /\ raws = [nm \in Names |-> NoRaw]
    /\ run = [p \in Procs |-> Idle]
    /\ hist = NoHist
    /\ runs = 0

\* each process runs create once, its steps interleaved with the other's
NextAtOnce ==
    \/ \E p \in Procs : Start(p)
    \/ \E p \in Procs : CheckFs(p)
    \/ \E p \in Procs, pulled \in BOOLEAN : EnsureSource(p, pulled)
    \/ \E p \in Procs : cleanRootfs(p)
    \/ \E p \in Procs, pulled \in BOOLEAN : EnsureImage(p, pulled)
    \/ \E p \in Procs : CalcSkip(p)
    \/ \E p \in Procs : MkdirRootfs(p)
    \/ \E p \in Procs : CheckSkip(p)
    \/ \E p \in Procs, ok, written \in BOOLEAN : ExtractLayer(p, ok, written)
    \/ \E p \in Procs : AdjustSymlinks(p)
    \/ \E p \in Procs : Relocate(p)
    \/ \E p \in Procs : Retain(p)
    \/ \E p \in Procs, ok \in BOOLEAN : WriteMarker(p, ok)
    \/ \E p \in Procs : RemoveStaleRaw(p)
    \/ \E p \in Procs, ok \in BOOLEAN : Pack(p, ok)
    \/ \E p \in Procs, ok \in BOOLEAN : Truncate(p, ok)
    \/ \E p \in Procs, ok \in BOOLEAN : MkfsExt4(p, ok)
    \/ \E p \in Procs, ok \in BOOLEAN : Resize2fs(p, ok)
    \/ \E p \in Procs : Finish(p)

SpecAtOnce == InitAtOnce /\ [][NextAtOnce]_vars

\* ------------------------------------------------------------ properties

\* the call the process is in
Cur == run[Main]

InvalidSkip == "invalid number of layers to skip"

\* the layer loop of the call r has run to its end
LoopOver(r) ==
    \/ r.pc = "extract" /\ r.i >= r.n
    \/ \E k \in DOMAIN r.log : r.log[k] = "symlinks"

\* createRootfs of the call r has returned nil
Assembled(r) ==
    r.pc \in {"rmraw", "pack", "mkfs", "resize"} \/ (r.pc = "done" /\ r.err = "")

\* the indices s, s+1, .., n-1 in increasing order
Trailing(s, n) == [k \in 1..(n - s) |-> s + k - 1]

\* the tree with the archives of layers[from..] laid over it in order
RECURSIVE Overlay(_, _, _)
Overlay(tree, layers, from) ==
    IF from > Len(layers) THEN tree
    ELSE Overlay(UntarFile(tree, Archive(layers[from])), layers, from + 1)

EmptyRoot == MkdirAllTree(NoTree, << >>)

\* C1: for a manifest of N layers and a skip count s in 0..N, the loop
\* extracts the layers s..N-1 and no other, each once, in manifest order:
\* at every iteration the layers extracted so far are s..i-1, at the loop's
\* end they are s..N-1, and the tree handed to adjustSymlinks is the
\* archives of these layers laid over the empty directory in that order.
C1_ExtractsTrailingLayers ==
    /\ Cur.pc = "extract" => Cur.extracted = Trailing(Cur.skip, Cur.i)
    /\ LoopOver(Cur) =>
          /\ Cur.extracted = Trailing(Cur.skip, Cur.n)
          /\ Len(Cur.extracted) = Cur.n - Cur.skip
          /\ \A k \in DOMAIN Cur.extracted : Cur.extracted[k] >= Cur.skip
    /\ Cur.pre # NoTree =>
          Cur.pre = Overlay(EmptyRoot, Manifest(Cur.image), Cur.skip + 1)

\* a loop that ended having skipped some layers and extracted the others
C1_Witness ==
    /\ Cur.pc = "relocate"
    /\ 0 < Cur.skip /\ Cur.skip < Cur.n
    /\ Cur.extracted = Trailing(Cur.skip, Cur.n)

\* C2 as the spec states it: when the skip count is below 0 or above N the
\* call returns the invalid-skip error having extracted no layer and done
\* no I/O on the working tree.
C2_NoIOBeforeInvalidSkip ==
    (Cur.pc = "done" /\ Cur.err = InvalidSkip) =>
        /\ Cur.extracted = << >>
        /\ Cur.log = << >>

\* C2, amended: a skip count below 0 or above N never reaches the layer
\* loop; the call returns the invalid-skip error with no layer extracted,
\* and the only I/O done on the working tree is cleanRootfs' removal and
\* the MkdirAll that recreates it, which leave it an empty directory.
C2_InvalidSkipRejected ==
    /\ (Cur.pc \in {"extract", "relocate", "retain", "marker", "rmraw", "pack",
                    "mkfs", "resize"}
         \/ Cur.extracted # << >>)
          => Cur.skip \in 0..Len(Manifest(Cur.image))
    /\ (Cur.pc = "done" /\ Cur.err = InvalidSkip) =>
          /\ Cur.skip \notin 0..Len(Manifest(Cur.image))
          /\ Cur.extracted = << >>
          /\ Cur.log = << "clean", "mkdir" >>
          /\ Tree(Main) = EmptyRoot

\* a call that returned the invalid-skip error for a negative skip count
C2_Witness ==
    /\ Cur.pc = "done" /\ Cur.err = InvalidSkip
    /\ Cur.skip < 0
    /\ Tree(Main) = EmptyRoot

\* the skip count the call works with equals len(target) - len(reference)
SkipIsDifference(r) ==
    r.skip = IF r.imageSource = r.image THEN 0
             ELSE Len(Manifest(r.image)) - Len(Manifest(r.imageSource))

\* C3: calcSkipLayers returns 0 when the reference image is empty or is
\* the target image, and otherwise len(target.Layers) -
\* len(reference.Layers), negative when the reference has more layers; the
\* call works with that count, and the 5-layer image "full" taken relative
\* to the 3-layer image "mid" gives 2 and the extraction of the 3rd, 4th
\* and 5th layer (indices 2, 3, 4) in that order.
C3_SkipIsLayerDifference ==
    /\ \A image \in Images, src \in Images \cup {""} :
          /\ (src = "" \/ src = image) =>
                calcSkipLayers(stored, image, src) = [skip |-> 0, err |-> ""]
          /\ (src # "" /\ src # image /\ {image, src} \subseteq stored) =>
                calcSkipLayers(stored, image, src) =
                  [skip |-> Len(Manifest(image)) - Len(Manifest(src)),
                   err |-> ""]
    /\ Cur.pc \in {"mkdir", "manifest", "extract"} => SkipIsDifference(Cur)
    /\ (Cur.image = "full" /\ Cur.imageSource = "mid" /\ LoopOver(Cur)) =>
          /\ Cur.skip = 2
          /\ Cur.extracted = << 2, 3, 4 >>

\* the 5-layer image relative to the 3-layer one, its loop over
C3_Witness ==
    /\ Cur.image = "full" /\ Cur.imageSource = "mid"
    /\ Cur.pc = "relocate"
    /\ Cur.extracted = << 2, 3, 4 >>

\* the layers of the target that the reference has too, in the same place
SharedLayers(r) ==
    {i \in 0..(Len(Manifest(r.image)) - 1) :
        /\ i < Len(Manifest(r.imageSource))
        /\ Manifest(r.imageSource)[i + 1] = Manifest(r.image)[i + 1]}

\* C4 as the spec states it: when the reference's layers are a leading
\* prefix of the target's, the skip count is the number of shared leading
\* layers: the layers the loop skips are the shared ones.
C4_SkipsSharedLayers ==
    (/\ Cur.pc \in {"mkdir", "manifest", "extract"}
     /\ Cur.imageSource # Cur.image
     /\ IsPrefix(Manifest(Cur.imageSource), Manifest(Cur.image))) =>
        /\ Cur.skip = Len(Manifest(Cur.imageSource))
        /\ \A i \in 0..(Len(Manifest(Cur.image)) - 1) :
              LayerSkipped(i, Cur.skip) <=> i \in SharedLayers(Cur)

\* C5: after createRootfs returned nil, for every image, name and valid
\* skip count (the count N, with no layer extracted, too), the tree holds
\* the file usr/lib/extension-release.d/extension-release.<name> for the
\* name the call was given.
C5_MarkerPresent ==
    Assembled(Cur) =>
        /\ MarkerPath(Cur.name) \in DOMAIN Tree(Main)
        /\ Tree(Main)[MarkerPath(Cur.name)].k = "file"
        /\ Cur.name = cmd.name

\* a call that skipped every layer and returned success
C5_Witness ==
    /\ Cur.pc = "done" /\ Cur.err = ""
    /\ Cur.n > 0 /\ Cur.skip = Cur.n
    /\ MarkerPath(Cur.name) \in DOMAIN Tree(Main)

\* C6: when create is run again with the same image, name, fs and
\* reference image after a run that succeeded, and the same files (if any)
\* cannot be read in both runs, the tree the second run leaves is the tree
\* the first run left.
C6_SecondRunSameTree ==
    (/\ Cur.pc = "done" /\ Cur.err = ""
     /\ hist.ok
     /\ hist.unread = Cur.unread) =>
        Tree(Main) = hist.tree

\* a second successful run over the image with links, binaries and copies
C6_Witness ==
    /\ Cur.pc = "done" /\ Cur.err = ""
    /\ hist.ok
    /\ Cur.image = "full" /\ Cur.skip = 0
    /\ Tree(Main) = hist.tree
    /\ << "usr", "lib", "libssl" >> \in DOMAIN Tree(Main)

\* the path the link e found at p points at, "." and ".." worked out
PointsAt(root, p, e) ==
    IF e.abs THEN Join(<< >>, e.t) ELSE Join(Dir(root \o p), e.t)

\* the link at p of the tree points at a path inside root
LinkStaysInside(tree, root, p) ==
    /\ p \in DOMAIN tree
    /\ tree[p].k = "link"
    /\ IsPrefix(root, PointsAt(root, p, tree[p]))

\* C7 as the spec states it: after adjustSymlinks returned nil, every link
\* whose target was an absolute path (one with ".." components too) points
\* at a path inside the tree's root directory.
C7_AbsoluteLinksInsideRoot ==
    Cur.pc = "relocate" =>
        \A p \in DOMAIN Cur.pre :
            (Cur.pre[p].k = "link" /\ Cur.pre[p].abs) =>
                LinkStaysInside(Tree(Main), Root(Main), p)

\* the relative link at p did not resolve, from its own directory, in tree
WasBroken(tree, root, p) ==
    StatNotExist(tree, root, RelativeTarget(root, p, tree[p].t))

\* C8 as the spec states it: after adjustSymlinks returned nil, every
\* relative link whose target did not exist before the pass points at a
\* path inside the tree's root directory, and every relative link whose
\* target resolved before the pass has its target unchanged.
C8_RelativeLinksNormalized ==
    Cur.pc = "relocate" =>
        \A p \in DOMAIN Cur.pre :
            (Cur.pre[p].k = "link" /\ ~Cur.pre[p].abs) =>
                IF WasBroken(Cur.pre, Root(Main), p)
                THEN LinkStaysInside(Tree(Main), Root(Main), p)
                ELSE /\ p \in DOMAIN Tree(Main)
                     /\ Tree(Main)[p] = Cur.pre[p]

\* the file f is an ELF executable or shared object that has no .interp
\* section or an empty one
ClassifiedStatic(f) == IsElfObject(f) /\ NoInterp(f, FALSE)

\* C9 as the spec states it: after relocateAndPatchBinaries returned nil
\* (no read of a file having failed), every file that was classified as
\* statically linked before the pass has the content it had before it.
C9_StaticFilesUnchanged ==
    (Cur.pc = "retain" /\ Cur.unread = {}) =>
        \A p \in DOMAIN Cur.mid :
            ClassifiedStatic(Cur.mid[p]) =>
                /\ p \in DOMAIN Tree(Main)
                /\ Tree(Main)[p] = Cur.mid[p]

\* the library n is present under the lib directory of the tree
LibPresent(tree, root, n) ==
    Stat(tree, root, Append(NewLibPath(root), n)).st = "ok"

\* C10 as the spec states it: after relocateAndPatchBinaries returned nil
\* (no read of a file having failed), every dynamically linked ELF binary
\* of the tree has its loader path and its library search path inside the
\* tree, and every library it depends on is present under the tree's lib
\* directory.
C10_DynamicBinariesRelocated ==
    (Cur.pc = "retain" /\ Cur.unread = {}) =>
        \A p \in DOMAIN Tree(Main) :
            (IsElfObject(Tree(Main)[p]) /\ ~ClassifiedStatic(Tree(Main)[p])) =>
                /\ IsPrefix(Root(Main), Tree(Main)[p].interp)
                /\ IsPrefix(Root(Main), Tree(Main)[p].rpath)
                /\ \A n \in Tree(Main)[p].needed :
                      LibPresent(Tree(Main), Root(Main), n)

\* ------------------------------------------------------------------- C11

AcceptedKinds == {"squashfs", "btrfs", "ext4"}

C12_TargetPulledBeforeManifest ==
    /\ Cur.pc \in {"calcskip", "mkdir", "manifest"} => Cur.image \in stored
    /\ ~(Cur.pc = "done" /\ Cur.err = "enoent")

\* ------------------------------------------------------------------- C13

\* create was invoked with --image and --name and without --image-source
NoImageSource == cmd.image # "" /\ cmd.name # "" /\ cmd.imageSource = ""

\* C13: --image-source is optional.  A command with an image and a name and
\* no image source is not refused for missing arguments, has the skip
\* count 0 and extracts every layer of the image: its layer loop leaves no
\* layer out, and it never fails on the skip count.
C13_ImageSourceOptional ==
    (NoImageSource /\ Cur.pc # "idle") =>
        /\ Cur.err \notin {"missing required arguments", InvalidSkip}
        /\ Cur.skip = 0
        /\ Cur.pc = "extract" => Cur.extracted = Trailing(0, Cur.i)
        /\ LoopOver(Cur) =>
              /\ Cur.n = Len(Manifest(cmd.image))
              /\ Cur.extracted = Trailing(0, Len(Manifest(cmd.image)))

\* every layer of the image "full" was extracted by a command that gave no
\* image source
C13_Witness ==
    /\ NoImageSource /\ cmd.image = "full"
    /\ Cur.pc = "relocate"
    /\ Cur.extracted = << 0, 1, 2, 3, 4 >>

\* ------------------------------------------------------------------- C14

\* the call r has done the operation op
Did(r, op) == \E k \in DOMAIN r.log : r.log[k] = op

\* the bytes of a megabyte as truncate and the division count it
Mega == 1024 * 1024

\* the bytes of the entries of the tree that are no directories
UsageBytes(tree) ==
    LET files == {q \in DOMAIN tree : tree[q].k # "dir"}
        sum[S \in SUBSET files] ==
            IF S = {} THEN 0
            ELSE LET q == CHOOSE r \in S : TRUE
                 IN Size(tree[q]) + sum[S \ {q}]
    IN sum[files]

\* m is the whole number nearest to bytes / Mega, a half counted upwards
Nearest(m, bytes) ==
    /\ 2 * m * Mega - Mega <= 2 * bytes
    /\ 2 * bytes < 2 * m * Mega + Mega

\* the raw file of the call was created with round(U) + 32 megabytes
RightSize(raw, tree) ==
    \E m \in 0..64 :
        /\ Nearest(m, UsageBytes(tree))
        /\ raw.size = (m + 32) * Mega

\* C14: for ext4 the raw file is created with round(U) + 32 megabytes, U
\* the megabytes of the entries of the tree that are no directories, and
\* it has that size and no filesystem when mkfs.ext4 is about to run; the
\* size asked for a tree of 100 megabytes is 132M.
C14_Ext4RawSize ==
    /\ Cur.pc = "mkfs" =>
          /\ Cur.fs = "ext4"
          /\ raws[Cur.name].exists /\ raws[Cur.name].fs = ""
          /\ RightSize(raws[Cur.name], Tree(Main))
    /\ (Cur.pc = "resize" \/ (Cur.pc = "done" /\ Did(Cur, "mkfs.ext4")))
          => RightSize(raws[Cur.name], Tree(Main))
    /\ Sprintf(Round(100 * Mega) + Headroom) = [digits |-> 132, suffix |-> "M"]

\* mkfs.ext4 is about to run on a raw file whose size was rounded upwards
C14_Witness ==
    /\ Cur.pc = "mkfs"
    /\ raws[Cur.name].size > UsageBytes(Tree(Main)) + 32 * Mega
    /\ UsageBytes(Tree(Main)) > 5 * Mega

\* ------------------------------------------------------------------- C15

\* the place of each operation in the order CreateSysext does them in
Rank(op) ==
    CASE op = "clean" -> 1
      [] op = "mkdir" -> 2
      [] op = "untar" -> 3
      [] op = "symlinks" -> 4
      [] op = "relocate" -> 5
      [] op = "marker" -> 6
      [] op = "rmraw" -> 7
      [] op \in {"pack", "truncate"} -> 8
      [] op = "mkfs.ext4" -> 9
      [] op = "resize2fs" -> 10

\* the operation that was the last one done when the call returns err
LastBefore(err) ==
    CASE err = "enoent" -> {"clean"}
      [] err = InvalidSkip -> {"mkdir"}
      [] err = "untar" -> {"untar"}
      [] err \in {"remove", "symlink"} -> {"symlinks"}
      [] err \in {"patchelf", "ldd", "copy"} -> {"relocate"}
      [] err = "write" -> {"relocate"}
      [] err = "exit status 1" -> {"pack", "truncate", "mkfs.ext4", "resize2fs"}
      [] OTHER -> {}

\* the errors of the steps the pipeline is made of
StepErrors ==
    {"enoent", InvalidSkip, "untar", "remove", "symlink", "patchelf", "ldd",
     "copy", "write", "exit status 1"}

\* the operations were done in the order of the pipeline, none twice but
\* the extraction of a layer
InOrder(log) ==
    \A j, k \in DOMAIN log :
        j < k => \/ Rank(log[j]) < Rank(log[k])
                 \/ log[j] = "untar" /\ log[k] = "untar"

\* C15: the pipeline is fail-fast.  The moment a step of it fails (reading
\* the manifest, the skip check, extracting a layer, the symlink pass, the
\* relocation pass, the marker's write, a packaging tool) the call has
\* returned that error, the failing step being the last one done; and the
\* call that has returned rolls nothing back: the tree, the raw images and
\* the local storage stay as the failing step left them.
C15_FailFast ==
    /\ [](/\ Cur.err # "" => Cur.pc = "done"
          /\ InOrder(Cur.log)
          /\ (Cur.pc = "done" /\ Cur.err \in StepErrors) =>
                /\ Cur.log # << >>
                /\ Last(Cur.log) \in LastBefore(Cur.err)
          /\ (Cur.pc = "done" /\ Did(Cur, "mkdir")) => TreeExists(Tree(Main)))
    /\ [][Cur.pc = "done" => UNCHANGED << trees, raws, stored >>]_vars

\* the extraction of a layer failed after two were extracted, and the tree
\* with these layers is still there
C15_Witness ==
    /\ Cur.pc = "done" /\ Cur.err = "untar"
    /\ Len(Cur.extracted) = 2
    /\ << "usr", "bin", "app" >> \in DOMAIN Tree(Main)

\* ------------------------------------------------------------------- C16

\* C16: a failure of any step of the relocation pass for any file ends the
\* pass with an error.  A pass in which the open of a file, the ELF open
\* or the read of its .interp section failed has returned an error to the
\* call, which has returned it: no call goes on to the retention step, the
\* marker or the packaging with such a file behind it.
C16_RelocationFailuresAbort ==
    (Did(Cur, "relocate") /\ Cur.unread # {})
        => Cur.pc = "done" /\ Cur.err \notin {"", "write", "exit status 1"}

\* ------------------------------------------------------------------- C17

\* the call r is in createRootfs, or has returned an error from it
InAssembly(r) ==
    \/ r.pc \in {"calcskip", "mkdir", "manifest", "extract", "relocate",
                 "retain", "marker"}
    \/ /\ r.pc = "done"
       /\ r.err \in {"enoent", InvalidSkip, "untar", "remove", "symlink",
                      "lstat", "patchelf", "ldd", "copy", "write"}

\* C17: the raw image an earlier run left under the name is removed before
\* the assembly and the packaging of a new attempt begin: while the tree is
\* assembled there is no <name>.raw, and there is none after an attempt
\* that failed during the assembly.
C17_StaleRawRemovedFirst ==
    InAssembly(Cur) => ~raws[Cur.name].exists

\* ------------------------------------------------------------------- C18

\* the call r is between the fs check and its return
Working(r) == r.pc \notin {"idle", "checkfs", "done"}

\* the tree a call of the command makes when it runs alone and nothing fails
AloneTree ==
    WriteMarkerTree(
        Retention(
            relocateAndPatchBinaries(
                adjustSymlinks(
                    Overlay(EmptyRoot, Manifest(cmd.image), 1),
                    RootfsDirOf(cmd.image), NoFault).tree,
                RootfsDirOf(cmd.image), NoFault).tree),
        cmd.name)

\* C18: two invocations for the same image work in the same directory and
\* nothing keeps one out while the other is at work: whatever the other
\* call is doing, the step a call is at (clearing the tree, making it,
\* extracting a layer, the symlink pass, the marker, removing the raw
\* file, packaging) can be taken.
C18_NoMutualExclusion ==
    \A p \in Procs : \A q \in Procs \ {p} :
        /\ (Working(run[p]) /\ Working(run[q]) /\ run[p].image = run[q].image)
              => Root(p) = Root(q)
        /\ run[p].pc = "clean" => ENABLED cleanRootfs(p)
        /\ run[p].pc = "mkdir" => ENABLED MkdirRootfs(p)
        /\ run[p].pc = "extract" =>
              ENABLED (\/ \E ok, written \in BOOLEAN : ExtractLayer(p, ok, written)
                       \/ AdjustSymlinks(p))
        /\ run[p].pc = "marker" => ENABLED WriteMarker(p, TRUE)
        /\ run[p].pc = "rmraw" => ENABLED RemoveStaleRaw(p)
        /\ run[p].pc = "pack" =>
              ENABLED (\E ok \in BOOLEAN : Pack(p, ok) \/ Truncate(p, ok))

\* the first process has packaged, without an error, a tree that is not
\* the one it makes alone: the second process cleared the directory in
\* between and has not packaged anything yet
C18_Witness ==
    /\ run["p1"].pc = "done" /\ run["p1"].err = ""
    /\ Working(run["p2"]) /\ ~Did(run["p2"], "rmraw")
    /\ Did(run["p2"], "clean")
    /\ raws[cmd.name].whole
    /\ raws[cmd.name].tree # AloneTree
    /\ << "usr", "share", "doc" >> \in DOMAIN AloneTree
    /\ << "usr", "share", "doc" >> \notin DOMAIN raws[cmd.name].tree

\* ------------------------------------------------------------------- C19

\* C19: once the retention step has run, and so after every successful
\* assembly, the root of the tree holds no entry but usr and opt: every
\* entry the step logs as unneeded has been removed.
C19_OnlyUsrAndOptKept ==
    (Cur.pc = "marker" \/ Assembled(Cur)) =>
        /\ Unneeded(Tree(Main)) = {}
        /\ \A q \in DOMAIN Tree(Main) : q # << >> => q[1] \in {"usr", "opt"}

\* ------------------------------------------------------------------- C20

\* what a plan made on the snapshot puts at p: an absolute link is pointed
\* under the root, a relative link that is broken in the snapshot is
\* pointed at root/target, everything else stays
Planned(snapshot, root, p) ==
    IF snapshot[p].k # "link" THEN snapshot[p]
    ELSE IF snapshot[p].abs
    THEN LinkEntry(TRUE, Join(root, snapshot[p].t))
    ELSE IF StatNotExist(snapshot, root,
                         Join(Dir(root \o p), snapshot[p].t))
    THEN LinkEntry(TRUE, Join(root, snapshot[p].t))
    ELSE snapshot[p]

\* the plan is made for every entry of the snapshot, then applied
PlanThenApply(snapshot, root) ==
    [p \in DOMAIN snapshot |-> Planned(snapshot, root, p)]

\* C20: the tree the symlink pass leaves is the tree that planning every
\* rewrite on a snapshot taken before the pass, and applying the plan
\* afterwards, gives: a relative link is classified the same whatever
\* was rewritten before it is visited.
C20_NormalizationIsPlanThenApply ==
    Cur.pc = "relocate" => Tree(Main) = PlanThenApply(Cur.pre, Root(Main))

\* ------------------------------------------------------------------- C21

\* the call has cleared the tree and its marker file is in the tree
MarkerWritten ==
    /\ Did(Cur, "clean")
    /\ MarkerPath(Cur.name) \in DOMAIN Tree(Main)

\* the call is at a packaging tool, or has run one
AtPackager ==
    \/ Cur.pc \in {"pack", "mkfs", "resize"}
    \/ \E op \in {"pack", "truncate", "mkfs.ext4", "resize2fs"} : Did(Cur, op)

\* C21: in a create call that has cleared the tree, the marker file
\* extension-release.<name> is in the tree only when every layer that is
\* not skipped has been extracted and the symlink pass and the relocation
\* pass have both returned without an error; and a packaging tool is only
\* run on a tree that holds the marker.
C21_MarkerMeansAssembled ==
    /\ MarkerWritten =>
          /\ Cur.n = Len(Manifest(Cur.image))
          /\ Cur.extracted = Trailing(Cur.skip, Cur.n)
          /\ Cur.log = << "clean", "mkdir" >>
                         \o [k \in 1..Len(Cur.extracted) |-> "untar"]
                         \o << "symlinks", "relocate", "marker" >>
                         \o SubSeq(Cur.log, Len(Cur.extracted) + 6,
                                   Len(Cur.log))
          /\ Cur.pre # NoTree /\ Cur.mid # NoTree
          /\ Cur.mid = adjustSymlinks(Cur.pre, Root(Main), NoFault).tree
          /\ Cur.err \in {"", "exit status 1"}
    /\ AtPackager =>
          /\ MarkerWritten
          /\ Tree(Main)[MarkerPath(Cur.name)] = FileEntry(MarkerContent)

\* a packaging tool is about to run on a tree with the marker, the first
\* two layers of five skipped and the other three extracted
C21_Witness ==
    /\ Cur.pc = "pack" /\ MarkerWritten
    /\ Cur.skip = 2 /\ Cur.extracted = << 2, 3, 4 >>

====
